---- MODULE Spec2Model ----
(***************************************************************************)
(* LinkedIn agent: the coordinator's execute() generator (executor.py),    *)
(* the personalization client (llm_service.py), the remote action engine   *)
(* with its authentication resolver (linkedin_service.py) and the local    *)
(* action engine of the split-execution skill (linkedin_automation.py).    *)
(*                                                                         *)
(* One behaviour is one run.  Every awaited browser call is a step that    *)
(* either completes or raises (a Playwright timeout or another exception); *)
(* every element query returns "present" or "absent".  Texts are modelled  *)
(* by their origin and their length in characters.                         *)
(***************************************************************************)
EXTENDS Integers, Sequences, FiniteSets, TLC

VARIABLES
    shape,      \* "remote": execute() drives the engine; "local": the skill's engine
    keys,       \* execute's keys argument: which entries are populated, and the provider
    opts,       \* execute's options argument: action, personalize, message_text
    hasUrl,     \* whether the prompt holds a profile URL (_extract_linkedin_url)
    pc,         \* position inside execute()
    events,     \* the events execute() has yielded, in order
    authMethod, \* linkedin_creds["method"]
    text,       \* note (connect) or message_text (message) handed to the engine
    llmCalls,   \* requests sent to a personalization backend
    xexc,       \* exception pending inside execute()
    kind,       \* which engine function runs: "connect" or "message"
    epc,        \* position inside the engine function
    engineCalls,\* invocations of send_connection_request / send_message
    browser,    \* "none", "open" (launched, not closed), "closed" (browser.close() ran)
    pw,         \* the async_playwright() scope: "none", "started", "stopped"
    url,        \* page.url: the looked-for substrings it holds
    seen,       \* result of each element query made so far
    log,        \* page and context operations performed, in order
    authResult, \* value returned by _authenticate_linkedin / the local login check
    ret,        \* value of the return statement executed inside the try block
    exc,        \* exception propagating inside the engine function
    faults,     \* the positions (values of epc) at which an awaited call raised
    outcome,    \* the record the engine function returned to its caller
    post,       \* a note as characters, and what note.strip()[:300] makes of it
    call,       \* one call of a provider adapter: the backend's answer and what
                \* the adapter makes of it
    skill       \* main() of the local skill: the action, the coordinator's answer,
                \* what call_marketplace_for_ai_message returned, the exit status

vars == <<shape, keys, opts, hasUrl, pc, events, authMethod, text, llmCalls, xexc,
          kind, epc, engineCalls, browser, pw, url, seen, log, authResult, ret,
          exc, faults, outcome, post, call, skill>>

execVars == <<pc, events, authMethod, text, llmCalls, xexc>>
inputVars == <<shape, keys, opts, hasUrl, post, call, skill>>
engineVars == <<kind, epc, engineCalls, browser, pw, url, seen, log, authResult,
                ret, exc, faults, outcome>>

----------------------------------------------------------------------------
(* Bounds and program constants *)

\* how far beyond the limit the modelled text lengths go
MaxExtra == 1

\* note[:300] / note.strip()[:300]
NoteLimit == 300

TextLens == {0, 1, NoteLimit} \cup {NoteLimit + k : k \in 1..MaxExtra}

Providers == {"anthropic", "openai", "google", "other"}
Actions == {"connect", "message", "other"}

NoText == [src |-> "none", len |-> 0]

\* main() of the local skill has not called the coordinator
SkillIdle == [stage |-> "off"]

\* no adapter call under way
CallIdle == [stage |-> "off"]

\* no note under post-processing
PostIdle == [stage |-> "off", note |-> <<>>, out |-> <<>>, again |-> <<>>]

\* the element descriptors the engines query
Controls == {"connect", "pending", "message", "add_note", "note_field",
             "send_aria", "send_text", "editable", "textarea", "submit"}

Min(a, b) == IF a <= b THEN a ELSE b

----------------------------------------------------------------------------
(* Progress events (sse_event / sse_error) *)

Status(tag) == [type |-> "status", tag |-> tag, text |-> NoText]
Error(tag) == [type |-> "error", tag |-> tag, text |-> NoText]
\* executor.py lines 195-200: the profile URL found in the prompt, None without one
ExtractLinkedinUrl(found) == IF found THEN "profile_url" ELSE "none"

\* lines 135-142, 177-184: the result payload (success, action, linkedin_url and
\* the note or message text)
Result(action, t) ==
    [type |-> "result", tag |-> action, text |-> t,
     url |-> ExtractLinkedinUrl(hasUrl), success |-> TRUE]

Emit(e) == events' = Append(events, e)

----------------------------------------------------------------------------
(* Initial state: the arguments of one run *)

EngineIdle ==
    /\ kind = "none" /\ epc = "idle" /\ engineCalls = 0
    /\ browser = "none" /\ pw = "none" /\ url = {}
    /\ seen = [c \in Controls |-> "unseen"] /\ log = <<>>
    /\ authResult = "none" /\ ret = "none" /\ exc = "none" /\ faults = {}
    /\ outcome = "none"

Init ==
    /\ shape \in {"remote", "local"}
    /\ IF shape = "remote"
       THEN /\ keys \in [cookie : BOOLEAN, email : BOOLEAN, password : BOOLEAN,
                         apiKey : BOOLEAN, provider : Providers]
            /\ opts \in [action : Actions, personalize : BOOLEAN, textLen : TextLens]
            /\ hasUrl \in BOOLEAN
            /\ pc = "start"
       ELSE /\ keys = [cookie |-> FALSE, email |-> FALSE, password |-> FALSE,
                       apiKey |-> FALSE, provider |-> "google"]
            /\ opts = [action |-> "connect", personalize |-> TRUE, textLen |-> 0]
            /\ hasUrl = TRUE
            /\ pc = "local_main"
    /\ events = <<>>
    /\ authMethod = "none"
    /\ text = NoText
    /\ llmCalls = 0
    /\ xexc = "none"
    /\ EngineIdle
    /\ post = PostIdle
    /\ call = CallIdle
    /\ skill = SkillIdle

----------------------------------------------------------------------------
(* execute(): src/linkedin_agent/executor.py *)

HasCookie(k) == k.cookie
HasPassword(k) == k.email /\ k.password

\* AuthMethodOf preferring the password pair
AuthMethodPasswordFirst(k) == IF HasPassword(k) THEN "password" ELSE "cookie"

AuthMethodOf(k) == IF HasCookie(k) THEN "cookie" ELSE "password"

\* lines 43-59: credentials present?
CheckCredentials ==
    /\ pc = "start"
    /\ IF ~HasCookie(keys) /\ ~HasPassword(keys)
       THEN /\ Emit(Error("credentials_missing"))
            /\ pc' = "done"
       ELSE /\ pc' = "check_key"
            /\ UNCHANGED events
    /\ UNCHANGED <<authMethod, text, llmCalls, xexc>>
    /\ UNCHANGED inputVars /\ UNCHANGED engineVars

\* CheckApiKey without the check
CheckApiKeySkipped ==
    /\ pc = "check_key"
    /\ pc' = "auth_method"
    /\ UNCHANGED <<events, authMethod, text, llmCalls, xexc>>
    /\ UNCHANGED inputVars /\ UNCHANGED engineVars

\* lines 61-63: LLM API key present?
CheckApiKey ==
    /\ pc = "check_key"
    /\ IF ~keys.apiKey
       THEN /\ Emit(Error("api_key_missing"))
            /\ pc' = "done"
       ELSE /\ pc' = "auth_method"
            /\ UNCHANGED events
    /\ UNCHANGED <<authMethod, text, llmCalls, xexc>>
    /\ UNCHANGED inputVars /\ UNCHANGED engineVars

\* lines 65-76: choose the strategy, warn about password auth
ResolveAuthMethod ==
    /\ pc = "auth_method"
    /\ authMethod' = AuthMethodOf(keys)
    /\ IF authMethod' = "password"
       THEN Emit(Status("password_warning"))
       ELSE UNCHANGED events
    /\ pc' = "extract_url"
    /\ UNCHANGED <<text, llmCalls, xexc>>
    /\ UNCHANGED inputVars /\ UNCHANGED engineVars

\* ExtractUrl without the return at line 97
ExtractUrlNoReturn ==
    /\ pc = "extract_url"
    /\ IF ~hasUrl
       THEN Emit(Error("url_missing"))
       ELSE Emit(Status("found_profile"))
    /\ pc' = "dispatch"
    /\ UNCHANGED <<authMethod, text, llmCalls, xexc>>
    /\ UNCHANGED inputVars /\ UNCHANGED engineVars

\* lines 93-99: profile URL from the prompt
ExtractUrl ==
    /\ pc = "extract_url"
    /\ IF ~hasUrl
       THEN /\ Emit(Error("url_missing"))
            /\ pc' = "done"
       ELSE /\ Emit(Status("found_profile"))
            /\ pc' = "dispatch"
    /\ UNCHANGED <<authMethod, text, llmCalls, xexc>>
    /\ UNCHANGED inputVars /\ UNCHANGED engineVars

\* lines 106-108, 147, 188-189: branch on the action kind
Dispatch ==
    /\ pc = "dispatch"
    /\ CASE opts.action = "connect" -> pc' = "connect_gen" /\ UNCHANGED events
         [] opts.action = "message" -> pc' = "msg_check" /\ UNCHANGED events
         [] OTHER -> Emit(Error("unknown_action")) /\ pc' = "done"
    /\ UNCHANGED <<authMethod, text, llmCalls, xexc>>
    /\ UNCHANGED inputVars /\ UNCHANGED engineVars

\* lines 109-111, 123-124
ConnectGenerating ==
    /\ pc = "connect_gen"
    /\ Emit(Status("generating_note"))
    /\ IF opts.personalize
       THEN pc' = "connect_llm" /\ UNCHANGED text
       ELSE pc' = "connect_send" /\ text' = NoText
    /\ UNCHANGED <<authMethod, llmCalls, xexc>>
    /\ UNCHANGED inputVars /\ UNCHANGED engineVars

----------------------------------------------------------------------------
(* generate_personalized_note(): src/linkedin_agent/llm_service.py *)

KnownProviders == {"anthropic", "openai", "google"}

\* what one backend request can come to: a 200 with text, a non-200 status,
\* a request timeout, any other exception (all but the first raise ValueError)
LLMResponses == {"ok", "http_error", "timeout", "exception"}

\* a provider's text: whitespace around a core that starts and ends with a
\* non-blank character (or is empty)
RawTexts == [lead : {0, 1}, core : TextLens, trail : {0, 1}]

\* str.strip(): the surrounding whitespace goes
Strip(raw) == raw.core

\* Truncate keeping the whole text
TruncateOff(n) == n

\* s[:300]
Truncate(n) == Min(n, NoteLimit)

\* line 85: note.strip()[:300]
PostProcess(raw) == Truncate(Strip(raw))

\* GenerateNote sending an unrecognised provider's request to a default backend
GenerateNoteDefaultProvider ==
    /\ pc \in {"connect_llm", "msg_llm"}
    /\ llmCalls' = llmCalls + 1
    /\ \E resp \in LLMResponses :
         IF resp = "ok"
         THEN /\ \E raw \in RawTexts :
                   text' = [src |-> "llm", len |-> PostProcess(raw)]
              /\ pc' = IF pc = "connect_llm" THEN "connect_generated" ELSE "msg_send"
              /\ UNCHANGED xexc
         ELSE /\ xexc' = "ValueError"
              /\ pc' = "except"
              /\ UNCHANGED text
    /\ UNCHANGED <<events, authMethod>>
    /\ UNCHANGED inputVars /\ UNCHANGED engineVars

\* GenerateNote rejecting an unrecognised provider only after a request went out
GenerateNoteValidatesLate ==
    /\ pc \in {"connect_llm", "msg_llm"}
    /\ llmCalls' = llmCalls + 1
    /\ IF keys.provider \notin KnownProviders
       THEN xexc' = "ValueError" /\ pc' = "except" /\ UNCHANGED text
       ELSE \E resp \in LLMResponses :
              IF resp = "ok"
              THEN /\ \E raw \in RawTexts :
                        text' = [src |-> "llm", len |-> PostProcess(raw)]
                   /\ pc' = IF pc = "connect_llm" THEN "connect_generated"
                                                  ELSE "msg_send"
                   /\ UNCHANGED xexc
              ELSE /\ xexc' = "ValueError"
                   /\ pc' = "except"
                   /\ UNCHANGED text
    /\ UNCHANGED <<events, authMethod>>
    /\ UNCHANGED inputVars /\ UNCHANGED engineVars

\* executor.py lines 112-121 and 156-166 call it; llm_service.py lines 36-85
GenerateNote ==
    /\ pc \in {"connect_llm", "msg_llm"}
    /\ IF keys.provider \notin KnownProviders
       THEN \* line 82: raise ValueError before any request
            /\ xexc' = "ValueError"
            /\ pc' = "except"
            /\ UNCHANGED <<text, llmCalls>>
       ELSE /\ llmCalls' = llmCalls + 1
            /\ \E resp \in LLMResponses :
                 IF resp = "ok"
                 THEN /\ \E raw \in RawTexts :
                           text' = [src |-> "llm", len |-> PostProcess(raw)]
                      /\ pc' = IF pc = "connect_llm" THEN "connect_generated"
                                                     ELSE "msg_send"
                      /\ UNCHANGED xexc
                 ELSE /\ xexc' = "ValueError"
                      /\ pc' = "except"
                      /\ UNCHANGED text
    /\ UNCHANGED <<events, authMethod>>
    /\ UNCHANGED inputVars /\ UNCHANGED engineVars

----------------------------------------------------------------------------
(* execute(), continued *)

\* the engine function is entered: send_connection_request / send_message
StartEngine(k) ==
    /\ kind' = k
    /\ epc' = "launch"
    /\ engineCalls' = engineCalls + 1
    /\ UNCHANGED <<browser, pw, url, seen, log, authResult, ret, exc, faults, outcome>>

\* line 122
ConnectGenerated ==
    /\ pc = "connect_generated"
    /\ Emit(Status("generated_note"))
    /\ pc' = "connect_send"
    /\ UNCHANGED <<authMethod, text, llmCalls, xexc>>
    /\ UNCHANGED inputVars /\ UNCHANGED engineVars

\* ConnectSending without the status event of line 126
ConnectSendingSilent ==
    /\ pc = "connect_send"
    /\ StartEngine("connect")
    /\ pc' = "connect_wait"
    /\ UNCHANGED <<events, authMethod, text, llmCalls, xexc>>
    /\ UNCHANGED inputVars

\* lines 126-133
ConnectSending ==
    /\ pc = "connect_send"
    /\ Emit(Status("sending"))
    /\ StartEngine("connect")
    /\ pc' = "connect_wait"
    /\ UNCHANGED <<authMethod, text, llmCalls, xexc>>
    /\ UNCHANGED inputVars

\* ConnectResult trying the engine a second time after a failure
ConnectResultRetry ==
    /\ pc = "connect_wait"
    /\ epc = "returned"
    /\ IF outcome = "Success"
       THEN Emit(Result("connect", text)) /\ pc' = "done"
       ELSE IF engineCalls < 2
            THEN UNCHANGED events /\ pc' = "connect_send"
            ELSE Emit(Error("connect_failed")) /\ pc' = "done"
    /\ UNCHANGED <<authMethod, text, llmCalls, xexc>>
    /\ UNCHANGED inputVars /\ UNCHANGED engineVars

\* lines 135-144
ConnectResult ==
    /\ pc = "connect_wait"
    /\ epc = "returned"
    /\ IF outcome = "Success"
       THEN Emit(Result("connect", text))
       ELSE Emit(Error("connect_failed"))
    /\ pc' = "done"
    /\ UNCHANGED <<authMethod, text, llmCalls, xexc>>
    /\ UNCHANGED inputVars /\ UNCHANGED engineVars

\* MessageCheckText personalizing whatever the personalize option says
MessageCheckTextAlwaysPersonalizes ==
    /\ pc = "msg_check"
    /\ IF opts.textLen = 0
       THEN /\ Emit(Error("message_text_missing"))
            /\ pc' = "done"
            /\ UNCHANGED text
       ELSE /\ text' = [src |-> "caller", len |-> opts.textLen]
            /\ pc' = "msg_personalize"
            /\ UNCHANGED events
    /\ UNCHANGED <<authMethod, llmCalls, xexc>>
    /\ UNCHANGED inputVars /\ UNCHANGED engineVars

\* lines 148-154
MessageCheckText ==
    /\ pc = "msg_check"
    /\ IF opts.textLen = 0
       THEN /\ Emit(Error("message_text_missing"))
            /\ pc' = "done"
            /\ UNCHANGED text
       ELSE /\ text' = [src |-> "caller", len |-> opts.textLen]
            /\ pc' = IF opts.personalize THEN "msg_personalize" ELSE "msg_send"
            /\ UNCHANGED events
    /\ UNCHANGED <<authMethod, llmCalls, xexc>>
    /\ UNCHANGED inputVars /\ UNCHANGED engineVars

\* line 155
MessagePersonalizing ==
    /\ pc = "msg_personalize"
    /\ Emit(Status("personalizing"))
    /\ pc' = "msg_llm"
    /\ UNCHANGED <<authMethod, text, llmCalls, xexc>>
    /\ UNCHANGED inputVars /\ UNCHANGED engineVars

\* lines 168-175
MessageSending ==
    /\ pc = "msg_send"
    /\ Emit(Status("sending"))
    /\ StartEngine("message")
    /\ pc' = "msg_wait"
    /\ UNCHANGED <<authMethod, text, llmCalls, xexc>>
    /\ UNCHANGED inputVars

\* MessageResult testing the outcome record itself instead of its success field
MessageResultUnchecked ==
    /\ pc = "msg_wait"
    /\ epc = "returned"
    /\ Emit(Result("message", text))
    /\ pc' = "done"
    /\ UNCHANGED <<authMethod, text, llmCalls, xexc>>
    /\ UNCHANGED inputVars /\ UNCHANGED engineVars

\* lines 177-186
MessageResult ==
    /\ pc = "msg_wait"
    /\ epc = "returned"
    /\ IF outcome = "Success"
       THEN Emit(Result("message", text))
       ELSE Emit(Error("message_failed"))
    /\ pc' = "done"
    /\ UNCHANGED <<authMethod, text, llmCalls, xexc>>
    /\ UNCHANGED inputVars /\ UNCHANGED engineVars

\* ExceptHandler going on without personalization instead of ending the run
ExceptHandlerFallsBack ==
    /\ pc = "except"
    /\ pc' = IF opts.action = "connect" THEN "connect_send" ELSE "msg_send"
    /\ xexc' = "none"
    /\ UNCHANGED <<events, authMethod, text, llmCalls>>
    /\ UNCHANGED inputVars /\ UNCHANGED engineVars

\* lines 191-192: except Exception
ExceptHandler ==
    /\ pc = "except"
    /\ Emit(Error("agent_error"))
    /\ pc' = "done"
    /\ xexc' = "none"
    /\ UNCHANGED <<authMethod, text, llmCalls>>
    /\ UNCHANGED inputVars /\ UNCHANGED engineVars

----------------------------------------------------------------------------
(* The action engine: src/linkedin_agent/linkedin_service.py (remote) and  *)
(* src/openclaw-skill/linkedin_automation.py (local)                       *)

\* what an awaited browser call can raise: PlaywrightTimeout, or another exception
Faults == {"timeout", "error"}

\* the substrings the code looks for in page.url
Markers == {"login", "checkpoint", "challenge"}

Present == "present"
Absent == "absent"

\* an awaited call is issued
Entry(op, on, n) == [op |-> op, on |-> on, len |-> n]
Call(op, on) == log' = Append(log, Entry(op, on, 0))
Call2(op1, on1, op2, on2) == log' = log \o <<Entry(op1, on1, 0), Entry(op2, on2, 0)>>

\* ... and completes: control moves on
Completes(next) == epc' = next /\ exc' = exc /\ faults' = faults

\* the call at the current position raises e
Fault(e) == exc' = e /\ faults' = faults \cup {epc}

\* ... or raises inside the try block: control goes to the finally clause
Raises == \E e \in Faults : Fault(e) /\ epc' = "finally"

\* ... or raises before the try block is entered: no finally clause applies,
\* the async_playwright() scope is left and the except clauses take over
RaisesBeforeTry == \E e \in Faults : Fault(e) /\ epc' = "except"

\* a return statement inside the try block
Return(v) == ret' = v /\ epc' = "finally" /\ exc' = exc /\ faults' = faults

\* page.query_selector(c): an element or None
Query(c, ifPresent, ifAbsent) ==
    /\ Call("query", c)
    /\ \/ \E r \in {Present, Absent} :
            /\ seen' = [seen EXCEPT ![c] = r]
            /\ Completes(IF r = Present THEN ifPresent ELSE ifAbsent)
       \/ Raises /\ UNCHANGED seen

\* element.click() followed by the settle pause page.wait_for_timeout(..)
ClickAndSettle(c, next) ==
    \/ Call("click", c) /\ Raises
    \/ Call2("click", c, "settle", c) /\ (Raises \/ Completes(next))

\* lines 105-106 (202-203; local 34-39, 133-134): enter the playwright scope, launch
EngineLaunch ==
    /\ epc = "launch"
    /\ \/ \* async_playwright() itself fails
          RaisesBeforeTry /\ UNCHANGED <<pw, browser>>
       \/ \* chromium.launch fails: the scope is left again
          RaisesBeforeTry /\ pw' = "stopped" /\ UNCHANGED browser
       \/ /\ pw' = "started"
          /\ browser' = "open"
          /\ Completes("new_context")
    /\ UNCHANGED <<kind, engineCalls, url, seen, log, authResult, ret, outcome>>
    /\ UNCHANGED inputVars /\ UNCHANGED execVars

\* lines 107-110 (204-207; local 41-43, 135): browser.new_context
EngineNewContext ==
    /\ epc = "new_context"
    /\ Call("new_context", "browser")
    /\ \/ Completes("new_page") /\ UNCHANGED pw
       \/ RaisesBeforeTry /\ pw' = "stopped"
    /\ UNCHANGED <<kind, engineCalls, browser, url, seen, authResult, ret, outcome>>
    /\ UNCHANGED inputVars /\ UNCHANGED execVars

\* line 111 (208; local 44, 136): context.new_page; then the try block starts
EngineNewPage ==
    /\ epc = "new_page"
    /\ Call("new_page", "context")
    /\ \/ Completes(IF shape = "remote" THEN "auth" ELSE "local_feed") /\ UNCHANGED pw
       \/ RaisesBeforeTry /\ pw' = "stopped"
    /\ UNCHANGED <<kind, engineCalls, browser, url, seen, authResult, ret, outcome>>
    /\ UNCHANGED inputVars /\ UNCHANGED execVars

(* _authenticate_linkedin: lines 9-78 *)

tryVars == <<kind, engineCalls, browser, pw, outcome>>

\* lines 26-42: cookie strategy, inject the cookie
AuthCookieInject ==
    /\ epc = "auth"
    /\ authMethod = "cookie"
    /\ IF ~keys.cookie
       THEN /\ authResult' = "SessionCookieMissing"
            /\ Completes("auth_done")
            /\ UNCHANGED log
       ELSE /\ Call("add_cookies", "context")
            /\ (Completes("auth_feed") \/ Raises)
            /\ UNCHANGED authResult
    /\ UNCHANGED <<url, seen, ret>> /\ UNCHANGED tryVars
    /\ UNCHANGED inputVars /\ UNCHANGED execVars

\* line 45: go to the feed; the site may redirect
AuthCookieFeed ==
    /\ epc = "auth_feed"
    /\ Call("goto", "feed")
    /\ \/ \E u \in SUBSET Markers : url' = u /\ Completes("auth_feed_idle")
       \/ Raises /\ UNCHANGED url
    /\ UNCHANGED <<seen, authResult, ret>> /\ UNCHANGED tryVars
    /\ UNCHANGED inputVars /\ UNCHANGED execVars

\* line 46
AuthCookieIdle ==
    /\ epc = "auth_feed_idle"
    /\ Call("wait_idle", "feed")
    /\ (Completes("auth_verify") \/ Raises)
    /\ UNCHANGED <<url, seen, authResult, ret>> /\ UNCHANGED tryVars
    /\ UNCHANGED inputVars /\ UNCHANGED execVars

\* CookieSessionRejected looking for "login" only
CookieSessionRejectedLoginOnly(u) == "login" \in u

\* line 49: "login" in page.url or "checkpoint" in page.url
CookieSessionRejected(u) == "login" \in u \/ "checkpoint" \in u

\* lines 48-52
AuthCookieVerify ==
    /\ epc = "auth_verify"
    /\ authResult' = IF CookieSessionRejected(url) THEN "ExpiredOrInvalidSession"
                                                   ELSE "ok"
    /\ Completes("auth_done")
    /\ UNCHANGED <<url, seen, log, ret>> /\ UNCHANGED tryVars
    /\ UNCHANGED inputVars /\ UNCHANGED execVars

\* lines 54-62: password strategy, open the login page
AuthPasswordGoto ==
    /\ epc = "auth"
    /\ authMethod # "cookie"
    /\ IF ~keys.email \/ ~keys.password
       THEN /\ authResult' = "EmailPasswordRequired"
            /\ Completes("auth_done")
            /\ UNCHANGED log
       ELSE /\ Call("goto", "login")
            /\ (Completes("auth_fill") \/ Raises)
            /\ UNCHANGED authResult
    /\ UNCHANGED <<url, seen, ret>> /\ UNCHANGED tryVars
    /\ UNCHANGED inputVars /\ UNCHANGED execVars

\* lines 63-64: fill both credential fields
AuthPasswordFill ==
    /\ epc = "auth_fill"
    /\ \/ Call("fill", "session_key") /\ Raises
       \/ /\ Call2("fill", "session_key", "fill", "session_password")
          /\ (Completes("auth_submit") \/ Raises)
    /\ UNCHANGED <<url, seen, authResult, ret>> /\ UNCHANGED tryVars
    /\ UNCHANGED inputVars /\ UNCHANGED execVars

\* line 65: submit the login form
AuthPasswordSubmit ==
    /\ epc = "auth_submit"
    /\ Call("click", "login_submit")
    /\ (Completes("auth_wait") \/ Raises)
    /\ UNCHANGED <<url, seen, authResult, ret>> /\ UNCHANGED tryVars
    /\ UNCHANGED inputVars /\ UNCHANGED execVars

\* AtSecurityCheckpoint looking for "checkpoint" only
AtSecurityCheckpointOnly(u) == "checkpoint" \in u

\* line 73: "checkpoint" in page.url or "challenge" in page.url
AtSecurityCheckpoint(u) == "checkpoint" \in u \/ "challenge" \in u

\* AuthPasswordWait with `except: pass`: a failed wait counts as logged in
AuthPasswordWaitSwallows ==
    /\ epc = "auth_wait"
    /\ Call("wait_url", "feed")
    /\ authResult' = "ok"
    /\ epc' = "auth_done"
    /\ exc' = exc
    /\ \/ url' = {} /\ faults' = faults
       \/ \E u \in SUBSET Markers : url' = u /\ faults' = faults \cup {epc}
    /\ UNCHANGED <<seen, ret>> /\ UNCHANGED tryVars
    /\ UNCHANGED inputVars /\ UNCHANGED execVars

\* lines 67-78: wait for the feed; on any exception look at the location
AuthPasswordWait ==
    /\ epc = "auth_wait"
    /\ Call("wait_url", "feed")
    /\ \/ /\ url' = {}
          /\ authResult' = "ok"
          /\ Completes("auth_done")
       \/ \E e \in Faults, u \in SUBSET Markers :
            /\ url' = u
            /\ faults' = faults \cup {epc}
            /\ IF AtSecurityCheckpoint(u)
               THEN \* the exception is swallowed
                    /\ authResult' = "SecurityCheckpoint"
                    /\ epc' = "auth_done"
                    /\ exc' = exc
               ELSE \* bare raise
                    /\ exc' = e
                    /\ epc' = "finally"
                    /\ UNCHANGED authResult
    /\ UNCHANGED <<seen, ret>> /\ UNCHANGED tryVars
    /\ UNCHANGED inputVars /\ UNCHANGED execVars

\* EngineCheckAuth not looking at the result
EngineCheckAuthIgnored ==
    /\ epc = "auth_done"
    /\ Completes("goto_profile")
    /\ UNCHANGED <<url, seen, log, authResult, ret>> /\ UNCHANGED tryVars
    /\ UNCHANGED inputVars /\ UNCHANGED execVars

\* lines 115-117 (212-214): return the failure, or go on
EngineCheckAuth ==
    /\ epc = "auth_done"
    /\ IF authResult # "ok"
       THEN Return(authResult)
       ELSE Completes("goto_profile") /\ UNCHANGED ret
    /\ UNCHANGED <<url, seen, log, authResult>> /\ UNCHANGED tryVars
    /\ UNCHANGED inputVars /\ UNCHANGED execVars

(* the local engine's login check: linkedin_automation.py *)

\* lines 48 (140): go to the feed in the user's own browser
LocalGotoFeed ==
    /\ epc = "local_feed"
    /\ Call("goto", "feed")
    /\ \/ \E u \in SUBSET Markers : url' = u /\ Completes("local_feed_idle")
       \/ Raises /\ UNCHANGED url
    /\ UNCHANGED <<seen, authResult, ret>> /\ UNCHANGED tryVars
    /\ UNCHANGED inputVars /\ UNCHANGED execVars

\* line 49 (141)
LocalFeedIdle ==
    /\ epc = "local_feed_idle"
    /\ Call("wait_idle", "feed")
    /\ (Completes("local_check") \/ Raises)
    /\ UNCHANGED <<url, seen, authResult, ret>> /\ UNCHANGED tryVars
    /\ UNCHANGED inputVars /\ UNCHANGED execVars

\* line 52 for connect, line 144 for message
LocalNotLoggedIn(k, u) ==
    IF k = "connect" THEN "login" \in u \/ "checkpoint" \in u
                     ELSE "login" \in u

\* lines 51-56 (143-145)
LocalCheckLogin ==
    /\ epc = "local_check"
    /\ authResult' = IF LocalNotLoggedIn(kind, url) THEN "NotLoggedIn" ELSE "ok"
    /\ Completes("auth_done")
    /\ UNCHANGED <<url, seen, log, ret>> /\ UNCHANGED tryVars
    /\ UNCHANGED inputVars /\ UNCHANGED execVars

(* shared steps: linkedin_service.py; linkedin_automation.py has the same *)

\* line 120 (217; local 61, 148)
GotoProfile ==
    /\ epc = "goto_profile"
    /\ Call("goto", "profile")
    /\ (Completes("profile_idle") \/ Raises)
    /\ UNCHANGED <<url, seen, authResult, ret>> /\ UNCHANGED tryVars
    /\ UNCHANGED inputVars /\ UNCHANGED execVars

\* WaitNetworkIdle going on to the queries when the wait fails
WaitNetworkIdleBestEffort ==
    /\ epc = "profile_idle"
    /\ Call("wait_idle", "profile")
    /\ epc' = IF kind = "connect" THEN "q_connect" ELSE "q_message"
    /\ exc' = exc
    /\ faults' = faults \/ faults' = faults \cup {epc}
    /\ UNCHANGED <<url, seen, authResult, ret>> /\ UNCHANGED tryVars
    /\ UNCHANGED inputVars /\ UNCHANGED execVars

\* line 121 (218; local 62, 149)
WaitNetworkIdle ==
    /\ epc = "profile_idle"
    /\ Call("wait_idle", "profile")
    /\ \/ Completes(IF kind = "connect" THEN "q_connect" ELSE "q_message")
       \/ Raises
    /\ UNCHANGED <<url, seen, authResult, ret>> /\ UNCHANGED tryVars
    /\ UNCHANGED inputVars /\ UNCHANGED execVars

(* send_connection_request: lines 123-167 (local 65-109) *)

\* lines 124-126 (local 66-68)
QueryConnect ==
    /\ epc = "q_connect"
    /\ Query("connect", "click_connect", "q_pending")
    /\ UNCHANGED <<url, authResult, ret>> /\ UNCHANGED tryVars
    /\ UNCHANGED inputVars /\ UNCHANGED execVars

\* QueryPending going on to the "Message" lookup whatever it found
QueryPendingSkipped ==
    /\ epc = "q_pending"
    /\ Call("query", "pending")
    /\ \/ \E r \in {Present, Absent} :
            /\ seen' = [seen EXCEPT !["pending"] = r]
            /\ Completes("q_connected")
       \/ Raises /\ UNCHANGED seen
    /\ UNCHANGED <<url, authResult, ret>> /\ UNCHANGED tryVars
    /\ UNCHANGED inputVars /\ UNCHANGED execVars

\* lines 128-130 (local 70-71)
QueryPending ==
    /\ epc = "q_pending"
    /\ Call("query", "pending")
    /\ \/ /\ seen' = [seen EXCEPT !["pending"] = Present]
          /\ Return("AlreadyRequested")
       \/ /\ seen' = [seen EXCEPT !["pending"] = Absent]
          /\ Completes("q_connected") /\ UNCHANGED ret
       \/ Raises /\ UNCHANGED <<seen, ret>>
    /\ UNCHANGED <<url, authResult>> /\ UNCHANGED tryVars
    /\ UNCHANGED inputVars /\ UNCHANGED execVars

\* QueryConnected reporting the missing Connect control whatever the lookup finds
QueryConnectedUndistinguished ==
    /\ epc = "q_connected"
    /\ Call("query", "message")
    /\ \/ \E r \in {Present, Absent} :
            /\ seen' = [seen EXCEPT !["message"] = r]
            /\ Return("ControlNotFound")
       \/ Raises /\ UNCHANGED <<seen, ret>>
    /\ UNCHANGED <<url, authResult>> /\ UNCHANGED tryVars
    /\ UNCHANGED inputVars /\ UNCHANGED execVars

\* lines 132-136 (local 72-75)
QueryConnected ==
    /\ epc = "q_connected"
    /\ Call("query", "message")
    /\ \/ /\ seen' = [seen EXCEPT !["message"] = Present]
          /\ Return("AlreadyConnected")
       \/ /\ seen' = [seen EXCEPT !["message"] = Absent]
          /\ Return("ControlNotFound")
       \/ Raises /\ UNCHANGED <<seen, ret>>
    /\ UNCHANGED <<url, authResult>> /\ UNCHANGED tryVars
    /\ UNCHANGED inputVars /\ UNCHANGED execVars

\* "if note:" -- a note that is neither None nor empty
NoteGiven(t) == t.len > 0

\* lines 138-142 (local 77-82)
ClickConnect ==
    /\ epc = "click_connect"
    /\ ClickAndSettle("connect", IF NoteGiven(text) THEN "q_add_note" ELSE "q_send")
    /\ UNCHANGED <<url, seen, authResult, ret>> /\ UNCHANGED tryVars
    /\ UNCHANGED inputVars /\ UNCHANGED execVars

\* QueryAddNote treating a missing "Add a note" control as a failure
QueryAddNoteRequired ==
    /\ epc = "q_add_note"
    /\ Call("query", "add_note")
    /\ \/ /\ seen' = [seen EXCEPT !["add_note"] = Present]
          /\ Completes("click_add_note") /\ UNCHANGED ret
       \/ /\ seen' = [seen EXCEPT !["add_note"] = Absent]
          /\ Return("ControlNotFound")
       \/ Raises /\ UNCHANGED <<seen, ret>>
    /\ UNCHANGED <<url, authResult>> /\ UNCHANGED tryVars
    /\ UNCHANGED inputVars /\ UNCHANGED execVars

\* lines 144-146 (local 84-86)
QueryAddNote ==
    /\ epc = "q_add_note"
    /\ Query("add_note", "click_add_note", "q_send")
    /\ UNCHANGED <<url, authResult, ret>> /\ UNCHANGED tryVars
    /\ UNCHANGED inputVars /\ UNCHANGED execVars

\* lines 147-148 (local 87-88)
ClickAddNote ==
    /\ epc = "click_add_note"
    /\ ClickAndSettle("add_note", "q_note_field")
    /\ UNCHANGED <<url, seen, authResult, ret>> /\ UNCHANGED tryVars
    /\ UNCHANGED inputVars /\ UNCHANGED execVars

\* lines 151-152 (local 91-92)
QueryNoteField ==
    /\ epc = "q_note_field"
    /\ Query("note_field", "fill_note", "q_send")
    /\ UNCHANGED <<url, authResult, ret>> /\ UNCHANGED tryVars
    /\ UNCHANGED inputVars /\ UNCHANGED execVars

\* FillNote with the local function filling the whole note
FillNoteLocalUncut ==
    /\ epc = "fill_note"
    /\ LET fill == Entry("fill", "note_field",
                         IF shape = "local" THEN text.len ELSE Truncate(text.len))
       IN \/ log' = Append(log, fill) /\ Raises
          \/ /\ log' = log \o <<fill, Entry("settle", "note_field", 0)>>
             /\ (Raises \/ Completes("q_send"))
    /\ UNCHANGED <<url, seen, authResult, ret>> /\ UNCHANGED tryVars
    /\ UNCHANGED inputVars /\ UNCHANGED execVars

\* lines 153-154 (local 93-94): note_field.fill(note[:300]), settle
FillNote ==
    /\ epc = "fill_note"
    /\ LET fill == Entry("fill", "note_field", Truncate(text.len))
       IN \/ log' = Append(log, fill) /\ Raises
          \/ /\ log' = log \o <<fill, Entry("settle", "note_field", 0)>>
             /\ (Raises \/ Completes("q_send"))
    /\ UNCHANGED <<url, seen, authResult, ret>> /\ UNCHANGED tryVars
    /\ UNCHANGED inputVars /\ UNCHANGED execVars

\* lines 157-158 (local 98-99): button[aria-label*="Send"]
QuerySend ==
    /\ epc = "q_send"
    /\ Query("send_aria", "click_send", "q_send_text")
    /\ UNCHANGED <<url, authResult, ret>> /\ UNCHANGED tryVars
    /\ UNCHANGED inputVars /\ UNCHANGED execVars

\* lines 159-161, 166-167 (local 100-102, 108-109): button:has-text("Send")
QuerySendFallback ==
    /\ epc = "q_send_text"
    /\ Call("query", "send_text")
    /\ \/ /\ seen' = [seen EXCEPT !["send_text"] = Present]
          /\ Completes("click_send") /\ UNCHANGED ret
       \/ /\ seen' = [seen EXCEPT !["send_text"] = Absent]
          /\ Return("SubmitControlNotFound")
       \/ Raises /\ UNCHANGED <<seen, ret>>
    /\ UNCHANGED <<url, authResult>> /\ UNCHANGED tryVars
    /\ UNCHANGED inputVars /\ UNCHANGED execVars

\* the element send_button holds
SendButton == IF seen["send_aria"] = Present THEN "send_aria" ELSE "send_text"

\* ClickSend reporting success without the click
ClickSendSkipped ==
    /\ epc = "click_send"
    /\ Return("Success")
    /\ UNCHANGED <<url, seen, log, authResult>> /\ UNCHANGED tryVars
    /\ UNCHANGED inputVars /\ UNCHANGED execVars

\* lines 162-165 (local 103-107)
ClickSend ==
    /\ epc = "click_send"
    /\ \/ Call("click", SendButton) /\ Raises /\ UNCHANGED ret
       \/ /\ Call2("click", SendButton, "settle", SendButton)
          /\ ((Raises /\ UNCHANGED ret) \/ Return("Success"))
    /\ UNCHANGED <<url, seen, authResult>> /\ UNCHANGED tryVars
    /\ UNCHANGED inputVars /\ UNCHANGED execVars

(* send_message: lines 220-251 (local 151-186) *)

\* QueryMessage without the early return
QueryMessageNoReturn ==
    /\ epc = "q_message"
    /\ Query("message", "click_message", "click_message")
    /\ UNCHANGED <<url, authResult, ret>> /\ UNCHANGED tryVars
    /\ UNCHANGED inputVars /\ UNCHANGED execVars

\* lines 221-224 (local 152-158)
QueryMessage ==
    /\ epc = "q_message"
    /\ Call("query", "message")
    /\ \/ /\ seen' = [seen EXCEPT !["message"] = Present]
          /\ Completes("click_message") /\ UNCHANGED ret
       \/ /\ seen' = [seen EXCEPT !["message"] = Absent]
          /\ Return("NotConnected")
       \/ Raises /\ UNCHANGED <<seen, ret>>
    /\ UNCHANGED <<url, authResult>> /\ UNCHANGED tryVars
    /\ UNCHANGED inputVars /\ UNCHANGED execVars

\* lines 226-227 (local 160-161)
ClickMessage ==
    /\ epc = "click_message"
    /\ ClickAndSettle("message", "q_editable")
    /\ UNCHANGED <<url, seen, authResult, ret>> /\ UNCHANGED tryVars
    /\ UNCHANGED inputVars /\ UNCHANGED execVars

\* lines 230-231 (local 164-165): div[contenteditable="true"]
QueryEditable ==
    /\ epc = "q_editable"
    /\ Query("editable", "fill_message", "q_textarea")
    /\ UNCHANGED <<url, authResult, ret>> /\ UNCHANGED tryVars
    /\ UNCHANGED inputVars /\ UNCHANGED execVars

\* lines 232-234, 237-238 (local 166-168, 171-172): textarea[name="message"]
QueryTextarea ==
    /\ epc = "q_textarea"
    /\ Call("query", "textarea")
    /\ \/ /\ seen' = [seen EXCEPT !["textarea"] = Present]
          /\ Completes("fill_message") /\ UNCHANGED ret
       \/ /\ seen' = [seen EXCEPT !["textarea"] = Absent]
          /\ Return("InputFieldNotFound")
       \/ Raises /\ UNCHANGED <<seen, ret>>
    /\ UNCHANGED <<url, authResult>> /\ UNCHANGED tryVars
    /\ UNCHANGED inputVars /\ UNCHANGED execVars

\* the element message_field holds
MessageField == IF seen["editable"] = Present THEN "editable" ELSE "textarea"

\* FillMessage cutting the message like a note
FillMessageTruncated ==
    /\ epc = "fill_message"
    /\ LET fill == Entry("fill", MessageField, Truncate(text.len))
       IN \/ log' = Append(log, fill) /\ Raises
          \/ /\ log' = log \o <<fill, Entry("settle", MessageField, 0)>>
             /\ (Raises \/ Completes("q_submit"))
    /\ UNCHANGED <<url, seen, authResult, ret>> /\ UNCHANGED tryVars
    /\ UNCHANGED inputVars /\ UNCHANGED execVars

\* lines 235-236 (local 169-170): message_field.fill(message), settle
FillMessage ==
    /\ epc = "fill_message"
    /\ LET fill == Entry("fill", MessageField, text.len)
       IN \/ log' = Append(log, fill) /\ Raises
          \/ /\ log' = log \o <<fill, Entry("settle", MessageField, 0)>>
             /\ (Raises \/ Completes("q_submit"))
    /\ UNCHANGED <<url, seen, authResult, ret>> /\ UNCHANGED tryVars
    /\ UNCHANGED inputVars /\ UNCHANGED execVars

\* lines 241-242 (local 175-176): button[type="submit"]
QuerySubmit ==
    /\ epc = "q_submit"
    /\ Query("submit", "click_submit", "q_submit_text")
    /\ UNCHANGED <<url, authResult, ret>> /\ UNCHANGED tryVars
    /\ UNCHANGED inputVars /\ UNCHANGED execVars

\* lines 243-245, 250-251 (local 177-179, 185-186): button:has-text("Send")
QuerySubmitFallback ==
    /\ epc = "q_submit_text"
    /\ Call("query", "send_text")
    /\ \/ /\ seen' = [seen EXCEPT !["send_text"] = Present]
          /\ Completes("click_submit") /\ UNCHANGED ret
       \/ /\ seen' = [seen EXCEPT !["send_text"] = Absent]
          /\ Return("SubmitControlNotFound")
       \/ Raises /\ UNCHANGED <<seen, ret>>
    /\ UNCHANGED <<url, authResult>> /\ UNCHANGED tryVars
    /\ UNCHANGED inputVars /\ UNCHANGED execVars

\* the element send_button holds in send_message
SubmitButton == IF seen["submit"] = Present THEN "submit" ELSE "send_text"

\* lines 246-249 (local 180-184)
ClickSubmit ==
    /\ epc = "click_submit"
    /\ \/ Call("click", SubmitButton) /\ Raises /\ UNCHANGED ret
       \/ /\ Call2("click", SubmitButton, "settle", SubmitButton)
          /\ ((Raises /\ UNCHANGED ret) \/ Return("Success"))
    /\ UNCHANGED <<url, seen, authResult>> /\ UNCHANGED tryVars
    /\ UNCHANGED inputVars /\ UNCHANGED execVars

(* leaving the engine function *)

\* lines 169-170 (253-254; local 111-112, 188-189): finally: await browser.close();
\* an exception raised by close() replaces the pending return value or exception;
\* then the async_playwright() scope is left
CloseBrowser ==
    /\ epc = "finally"
    /\ Call("close", "browser")
    /\ browser' = "closed"
    /\ pw' = "stopped"
    /\ epc' = "except"
    /\ \/ exc' = exc /\ faults' = faults
       \/ \E e \in Faults : Fault(e)
    /\ UNCHANGED <<kind, engineCalls, url, seen, authResult, ret, outcome>>
    /\ UNCHANGED inputVars /\ UNCHANGED execVars

\* lines 172-175 (256-259; local 114-117, 191-194): the except clauses
Classify(e, r) ==
    CASE e = "timeout" -> "Timeout"
      [] e = "error" -> "UnknownAutomationError"
      [] OTHER -> r

\* EngineReturn with `except PlaywrightTimeout` as the only except clause: any
\* other exception leaves the function
EngineReturnTimeoutOnly ==
    /\ epc = "except"
    /\ IF exc = "error"
       THEN epc' = "escaped" /\ UNCHANGED <<outcome, exc>>
       ELSE outcome' = Classify(exc, ret) /\ exc' = "none" /\ epc' = "returned"
    /\ UNCHANGED <<kind, engineCalls, browser, pw, url, seen, log, authResult, ret,
                   faults>>
    /\ UNCHANGED inputVars /\ UNCHANGED execVars

\* EngineReturn starting the whole sequence again after a timeout
EngineReturnRetriesTimeout ==
    /\ epc = "except"
    /\ IF exc = "timeout"
       THEN /\ epc' = "launch"
            /\ browser' = "none" /\ pw' = "none" /\ url' = {}
            /\ seen' = [c \in Controls |-> "unseen"]
            /\ log' = <<>> /\ faults' = {}
            /\ authResult' = "none" /\ ret' = "none" /\ exc' = "none"
            /\ UNCHANGED outcome
       ELSE /\ outcome' = Classify(exc, ret)
            /\ exc' = "none"
            /\ epc' = "returned"
            /\ UNCHANGED <<browser, pw, url, seen, log, authResult, ret, faults>>
    /\ UNCHANGED <<kind, engineCalls>>
    /\ UNCHANGED inputVars /\ UNCHANGED execVars

\* the function returns its record to the caller
EngineReturn ==
    /\ epc = "except"
    /\ outcome' = Classify(exc, ret)
    /\ exc' = "none"
    /\ epc' = "returned"
    /\ UNCHANGED <<kind, engineCalls, browser, pw, url, seen, log, authResult, ret,
                   faults>>
    /\ UNCHANGED inputVars /\ UNCHANGED execVars

----------------------------------------------------------------------------
(* main() of the local skill: src/openclaw-skill/linkedin_automation.py *)

\* what the POST to the coordinator can come to: LLM_API_KEY unset (no request
\* is sent), an exception, a status other than 200, a stream without a result
\* object, a result object without success, or a successful result object with
\* its personalized_note and message entries (lengths; -1: absent or null)
CoordinatorFailures == {"no_key", "exception", "non200", "no_result", "failed_result"}

CoordinatorAnswers(k) ==
    {[kind |-> x, note |-> -1, message |-> -1] : x \in CoordinatorFailures}
    \cup {[kind |-> "success", note |-> -1, message |-> -1]}
    \cup (IF k = "connect"
          THEN \* executor.py lines 136-142: the note and a confirmation text
               {[kind |-> "success", note |-> n, message |-> 1] : n \in TextLens}
          ELSE \* executor.py lines 178-184: the message text, no note
               {[kind |-> "success", note |-> -1, message |-> m] : m \in TextLens})

\* lines 261-275: what call_marketplace_for_ai_message returns for action k and
\* answer a. `note or message` takes the message entry when the note is absent
\* or empty; slicing None raises, which the outer except turns into a failure.
MarketplaceReturn(k, a) ==
    IF a.kind # "success" THEN [success |-> FALSE, text |-> NoText]
    ELSE IF a.note > 0 THEN [success |-> TRUE, text |-> [src |-> "llm", len |-> a.note]]
    ELSE IF a.message = -1 THEN [success |-> FALSE, text |-> NoText]
    ELSE [success |-> TRUE,
          text |-> [src |-> IF k = "message" THEN "llm" ELSE "confirmation",
                    len |-> a.message]]

\* lines 296, 303-308 (197-275): the action from the prompt, then the coordinator call
LocalCoordinator ==
    /\ pc = "local_main"
    /\ \E k \in {"connect", "message"} :
         \E a \in CoordinatorAnswers(k) :
            skill' = [stage |-> "called", action |-> k, answer |-> a,
                      result |-> MarketplaceReturn(k, a), exit |-> -1]
    /\ pc' = "local_gate"
    /\ UNCHANGED <<shape, keys, opts, hasUrl, post, call>>
    /\ UNCHANGED <<events, authMethod, text, llmCalls, xexc>>
    /\ UNCHANGED engineVars

\* lines 310-328: leave with status 1 on a failure, else run the action locally
LocalMain ==
    /\ pc = "local_gate"
    /\ IF ~skill.result.success
       THEN /\ skill' = [skill EXCEPT !.exit = 1]
            /\ pc' = "done"
            /\ UNCHANGED text /\ UNCHANGED engineVars
       ELSE /\ text' = skill.result.text
            /\ StartEngine(skill.action)
            /\ pc' = "local_wait"
            /\ UNCHANGED skill
    /\ UNCHANGED <<shape, keys, opts, hasUrl, post, call>>
    /\ UNCHANGED <<events, authMethod, llmCalls, xexc>>

\* lines 330-335: exit status from the engine's record
LocalExit ==
    /\ pc = "local_wait"
    /\ epc = "returned"
    /\ pc' = "done"
    /\ skill' = [skill EXCEPT !.exit = IF outcome = "Success" THEN 0 ELSE 1]
    /\ UNCHANGED <<shape, keys, opts, hasUrl, post, call>>
    /\ UNCHANGED <<events, authMethod, text, llmCalls, xexc>>
    /\ UNCHANGED engineVars

----------------------------------------------------------------------------

Next ==
    \/ CheckCredentials \/ CheckApiKey \/ ResolveAuthMethod \/ ExtractUrl
    \/ Dispatch \/ ConnectGenerating \/ GenerateNote \/ ConnectGenerated
    \/ ConnectSending \/ ConnectResult \/ MessageCheckText
    \/ MessagePersonalizing \/ MessageSending \/ MessageResult \/ ExceptHandler
    \/ EngineLaunch \/ EngineNewContext \/ EngineNewPage
    \/ AuthCookieInject \/ AuthCookieFeed \/ AuthCookieIdle \/ AuthCookieVerify
    \/ AuthPasswordGoto \/ AuthPasswordFill \/ AuthPasswordSubmit
    \/ AuthPasswordWait \/ EngineCheckAuth
    \/ LocalGotoFeed \/ LocalFeedIdle \/ LocalCheckLogin
    \/ GotoProfile \/ WaitNetworkIdle
    \/ QueryConnect \/ QueryPending \/ QueryConnected \/ ClickConnect
    \/ QueryAddNote \/ ClickAddNote \/ QueryNoteField \/ FillNote
    \/ QuerySend \/ QuerySendFallback \/ ClickSend
    \/ QueryMessage \/ ClickMessage \/ QueryEditable \/ QueryTextarea
    \/ FillMessage \/ QuerySubmit \/ QuerySubmitFallback \/ ClickSubmit
    \/ CloseBrowser \/ EngineReturn
    \/ LocalCoordinator \/ LocalMain \/ LocalExit

Spec == Init /\ [][Next]_vars

----------------------------------------------------------------------------
(* Properties *)

Range(sq) == {sq[i] : i \in 1..Len(sq)}
Terminal(e) == e.type \in {"result", "error"}
LastEvent == events[Len(events)]
Did(op, on) == Entry(op, on, 0) \in Range(log)

\* browser.close() raised: the except clauses then replace whatever the try
\* block was returning by the Timeout / UnknownAutomationError record
CloseRaised == "finally" \in faults
Delivered(r) ==
    IF CloseRaised THEN outcome \in {"Timeout", "UnknownAutomationError"}
                   ELSE outcome = r

\* a click on a control of the target profile (not the login form's submit)
ProfileClick(e) == e.op = "click" /\ e.on # "login_submit"

\* C1: in every run of execute the events hold at most one terminal event
\* (result or error), a terminal event is the last event and is only there once
\* the run is over, and a run that is over has ended with one; so exactly one
\* terminal event closes the sequence and only status events precede it.
C1_OneTerminalEventLast ==
    shape = "remote" =>
        /\ \A i \in 1..Len(events) :
             Terminal(events[i]) => (i = Len(events) /\ pc = "done")
        /\ pc = "done" => (events # <<>> /\ Terminal(LastEvent))

\* a run that ended with an error event after a browser step raised
C1_Witness ==
    /\ shape = "remote" /\ pc = "done"
    /\ faults # {}
    /\ Len(events) >= 4
    /\ LastEvent.type = "error"
    /\ \A i \in 1..(Len(events) - 1) : events[i].type = "status"

\* C2: when the engine function has returned and a browser had been launched,
\* browser.close() has run, on every exit path.
C2_BrowserClosedOnEveryExit ==
    (epc = "returned" /\ browser # "none") => browser = "closed"

\* C3: a connect run whose "Connect" query found nothing and whose "Pending"
\* query found a control returns AlreadyRequested from its try block, never
\* ends ControlNotFound or AlreadyConnected and clicks no profile control (the
\* "Message" control is not even looked up); the caller receives
\* AlreadyRequested unless browser.close() itself raised.
C3_PendingMeansAlreadyRequested ==
    (kind = "connect" /\ seen["connect"] = Absent /\ seen["pending"] = Present) =>
        /\ ret = "AlreadyRequested"
        /\ seen["message"] = "unseen"
        /\ \A e \in Range(log) : ~ProfileClick(e)
        /\ outcome \notin {"ControlNotFound", "AlreadyConnected"}
        /\ epc = "returned" => Delivered("AlreadyRequested")

C3_Witness ==
    /\ kind = "connect" /\ epc = "returned"
    /\ seen["connect"] = Absent /\ seen["pending"] = Present
    /\ outcome = "AlreadyRequested"

\* C4: in a message run whose "Message" query found nothing, that query is the
\* last page interaction (only browser.close() follows it), the try block
\* returns NotConnected, and the caller receives NotConnected unless
\* browser.close() itself raised.
C4_NoMessageControlMeansNotConnected ==
    (kind = "message" /\ seen["message"] = Absent) =>
        /\ ret = "NotConnected"
        /\ \A i \in 1..Len(log) :
             log[i] = Entry("query", "message", 0) =>
                 \A j \in (i + 1)..Len(log) : log[j].op = "close"
        /\ \A e \in Range(log) :
             /\ e.op # "fill" \/ e.on \in {"session_key", "session_password"}
             /\ ~ProfileClick(e)
             /\ e.op = "query" => e.on = "message"
        /\ epc = "returned" => Delivered("NotConnected")

C4_Witness ==
    /\ kind = "message" /\ epc = "returned"
    /\ seen["message"] = Absent
    /\ outcome = "NotConnected"

\* C5: once authentication has reported a failure, the run performs nothing
\* but the steps authentication itself had made and the closing of the browser
\* (no navigation to the profile, no query, no click or fill on it), the try
\* block returns that failure, and the caller receives it unless
\* browser.close() itself raised.
AuthFailed == authResult \notin {"none", "ok"}

AuthStep(e) ==
    \/ e.op \in {"new_context", "new_page", "add_cookies", "wait_url", "close"}
    \/ e.op \in {"goto", "wait_idle"} /\ e.on \in {"feed", "login"}
    \/ e.op = "fill" /\ e.on \in {"session_key", "session_password"}
    \/ e.op = "click" /\ e.on = "login_submit"

C5_AuthFailureStopsTheRun ==
    AuthFailed =>
        /\ \A e \in Range(log) : AuthStep(e)
        /\ \A c \in Controls : seen[c] = "unseen"
        /\ epc \in {"finally", "except", "returned"} => ret = authResult
        /\ epc = "returned" => Delivered(authResult)

C5_Witness ==
    /\ shape = "remote" /\ epc = "returned"
    /\ authResult = "SecurityCheckpoint"
    /\ outcome = "SecurityCheckpoint"

\* C6: no step of an engine invocation is repeated: every call recorded in the
\* log occurs once, so the primary control and the submit control are each
\* clicked at most once, and the engine is invoked at most once per run.
Clicks(cs) == {i \in 1..Len(log) : log[i].op = "click" /\ log[i].on \in cs}

C6_OneAttempt ==
    /\ engineCalls <= 1
    /\ \A i, j \in 1..Len(log) : log[i] = log[j] => i = j
    /\ Cardinality(Clicks({"connect", "message"})) <= 1
    /\ Cardinality(Clicks({"send_aria", "send_text", "submit"})) <= 1

\* a finished run of execute whose engine failed after the Connect click
C6_Witness ==
    /\ shape = "remote" /\ pc = "done"
    /\ engineCalls = 1
    /\ Did("click", "connect")
    /\ faults # {}
    /\ outcome # "Success"

\* C7: with a session cookie and an email+password pair both supplied, the run
\* uses the cookie strategy: the login page is never opened, the login form is
\* never filled or submitted, and the cookie has been injected by the time
\* authentication reports anything, a rejected cookie included.
BothSupplied == shape = "remote" /\ keys.cookie /\ keys.email /\ keys.password

LoginFormStep(e) ==
    \/ e.op = "goto" /\ e.on = "login"
    \/ e.op = "fill" /\ e.on \in {"session_key", "session_password"}
    \/ e.op = "click" /\ e.on = "login_submit"
    \/ e.op = "wait_url"

C7_CookieHasPriority ==
    BothSupplied =>
        /\ authMethod \in {"none", "cookie"}
        /\ \A e \in Range(log) : ~LoginFormStep(e)
        /\ authResult # "none" => Did("add_cookies", "context")

C7_Witness ==
    /\ BothSupplied /\ pc = "done"
    /\ authResult = "ExpiredOrInvalidSession"
    /\ outcome = "ExpiredOrInvalidSession"

\* C8: with LinkedIn credentials present and no LLM API key, the events are one
\* error event and nothing else: no status event, no personalization call, no
\* browser session.
CredentialsPresent == HasCookie(keys) \/ HasPassword(keys)

C8_MissingApiKeyFailsFirst ==
    (shape = "remote" /\ CredentialsPresent /\ ~keys.apiKey) =>
        /\ llmCalls = 0
        /\ pc \notin {"connect_llm", "msg_llm"}
        /\ engineCalls = 0 /\ browser = "none" /\ pw = "none"
        /\ \A i \in 1..Len(events) : events[i].type = "error"
        /\ Len(events) <= 1
        /\ pc = "done" => events = <<Error("api_key_missing")>>

\* the password pair alone, where the warning status would otherwise come first
C8_Witness ==
    /\ shape = "remote" /\ pc = "done"
    /\ ~keys.cookie /\ HasPassword(keys) /\ ~keys.apiKey
    /\ events = <<Error("api_key_missing")>>

\* C9: every input error is detected before any network or browser activity.
MissingCredentials == ~CredentialsPresent
MissingText == opts.action = "message" /\ opts.textLen = 0
UnknownAction == opts.action \notin {"connect", "message"}
UnknownProvider == keys.provider \notin KnownProviders

\* no personalization request sent, no browser launched
NoActivity == llmCalls = 0 /\ browser = "none"
EndsWithError == pc = "done" => (events # <<>> /\ LastEvent.type = "error")

\* C9 as claimed: an unknown provider counts as a defect in every run
C9_InputErrorsBeforeActivity ==
    (/\ shape = "remote"
     /\ \/ ~hasUrl \/ MissingText \/ MissingCredentials \/ ~keys.apiKey
        \/ UnknownAction \/ UnknownProvider) =>
        NoActivity /\ EndsWithError

\* C9 amended: a run with a missing target URL, missing message text, missing
\* credentials, a missing API key, an unknown action kind, or an unknown
\* provider together with personalize=true sends no personalization request,
\* launches no browser and ends with an error event.
C9_InputErrorsBeforeActivityAmended ==
    (/\ shape = "remote"
     /\ \/ ~hasUrl \/ MissingText \/ MissingCredentials \/ ~keys.apiKey
        \/ UnknownAction \/ (UnknownProvider /\ opts.personalize)) =>
        NoActivity /\ engineCalls = 0 /\ pw = "none" /\ EndsWithError

\* an unknown provider rejected by the personalization client
C9_Witness ==
    /\ shape = "remote" /\ pc = "done"
    /\ UnknownProvider /\ opts.personalize
    /\ hasUrl /\ ~MissingText /\ ~UnknownAction
    /\ LastEvent = Error("agent_error")
    /\ NoActivity

\* C10: in a connect run with personalization, the sending status has been
\* emitted by the time the engine starts its browser session, and a run that
\* ended with a result has emitted, before the result, only status events, at
\* least three of them, among them found-profile, generating-note and sending
\* in that order.
C10_StatusOrder ==
    (shape = "remote" /\ opts.action = "connect" /\ opts.personalize) =>
        /\ (engineCalls > 0 \/ pw # "none" \/ browser # "none") =>
               Status("sending") \in Range(events)
        /\ (events # <<>> /\ LastEvent.type = "result") =>
               /\ Len(events) - 1 >= 3
               /\ \A m \in 1..(Len(events) - 1) : events[m].type = "status"
               /\ \E i, j, k \in 1..(Len(events) - 1) :
                    /\ i < j /\ j < k
                    /\ events[i] = Status("found_profile")
                    /\ events[j] = Status("generating_note")
                    /\ events[k] = Status("sending")

C10_Witness ==
    /\ shape = "remote" /\ pc = "done"
    /\ opts.action = "connect" /\ opts.personalize
    /\ LastEvent.type = "result"
    /\ text.src = "llm" /\ text.len = NoteLimit

----------------------------------------------------------------------------
(* Result events *)

ResultEvents == {i \in 1..Len(events) : events[i].type = "result"}

\* C11: a result event is emitted only when the engine returned success=true;
\* its payload has success=true, the requested action and the URL extracted
\* from the prompt, and for a personalized connect a note of at most 300
\* characters; an engine outcome with success=false yields an error event and
\* no result event.
C11_ResultOnlyOnSuccess ==
    shape = "remote" =>
        /\ \A i \in ResultEvents :
              /\ epc = "returned" /\ outcome = "Success"
              /\ events[i].success
              /\ events[i].tag = opts.action /\ events[i].tag = kind
              /\ hasUrl /\ events[i].url = ExtractLinkedinUrl(TRUE)
              /\ (opts.action = "connect" /\ opts.personalize) =>
                     /\ events[i].text.src = "llm"
                     /\ events[i].text.len <= NoteLimit
              /\ (opts.action = "connect" /\ ~opts.personalize) =>
                     events[i].text = NoText
        /\ (pc = "done" /\ epc = "returned" /\ outcome # "Success") =>
              /\ LastEvent.type = "error"
              /\ ResultEvents = {}

C11_Witness ==
    /\ shape = "remote" /\ pc = "done"
    /\ opts.action = "connect" /\ opts.personalize
    /\ ResultEvents = {Len(events)}
    /\ LastEvent.text.len = NoteLimit
    /\ LastEvent.url = "profile_url" /\ LastEvent.success

----------------------------------------------------------------------------
(* Exceptions *)

\* the records the engine functions return, by their success field
EngineFailures ==
    {"ExpiredOrInvalidSession", "SecurityCheckpoint", "NotLoggedIn",
     "AlreadyRequested", "AlreadyConnected", "ControlNotFound",
     "SubmitControlNotFound", "NotConnected", "InputFieldNotFound",
     "Timeout", "UnknownAutomationError"}
EngineOutcomes == {"Success"} \cup EngineFailures

\* C12: no exception leaves the engine functions or execute: whatever call
\* raised (authentication, navigation, query, click, fill, closing the
\* session), the engine function returns an outcome record, a failure one
\* when the exception was still pending at its except clauses, and an
\* exception raised by personalization ends the run of execute with an error
\* event.
C12_NoExceptionEscapes ==
    /\ [](/\ epc = "returned" => (outcome \in EngineOutcomes /\ exc = "none")
          /\ epc # "returned" => outcome = "none"
          /\ exc # "none" => epc \in {"finally", "except"}
          /\ (epc = "returned" /\ faults # {}) => outcome \in EngineFailures
          /\ xexc # "none" => pc = "except")
    /\ [][(epc = "except" /\ epc' # epc) =>
             /\ epc' = "returned"
             /\ exc # "none" => outcome' \in {"Timeout", "UnknownAutomationError"}]_vars
    /\ [][pc = "except" =>
             /\ pc' = "done" /\ xexc' = "none"
             /\ LastEvent' = Error("agent_error")]_vars

C12_Witness ==
    /\ shape = "remote" /\ pc = "done"
    /\ epc = "returned" /\ faults = {"finally"}
    /\ ret = "Success" /\ outcome = "UnknownAutomationError"
    /\ LastEvent = Error("connect_failed")

----------------------------------------------------------------------------
(* Timeouts *)

\* the positions of the bounded waits: navigation to the feed, the login page
\* or the profile, the network-idle waits and the login wait
WaitPositions ==
    {"auth_feed", "auth_feed_idle", "auth_wait", "local_feed", "local_feed_idle",
     "goto_profile", "profile_idle"}
        \cup (IF authMethod = "password" THEN {"auth"} ELSE {})

WaitRaised == faults \cap WaitPositions # {}

\* C13: when a bounded wait of an engine run raises (a timeout included), the
\* run ends in a failure outcome, never Success; a pending timeout that
\* reaches the except clauses is reported as Timeout; and after the raise no
\* further page call is issued: the only call left is closing the session.
C13_TimeoutEndsTheRun ==
    /\ [](WaitRaised =>
            /\ ret # "Success" /\ outcome # "Success"
            /\ epc \in {"auth_done", "finally", "except", "returned"}
            /\ epc = "auth_done" => authResult = "SecurityCheckpoint"
            /\ epc = "returned" => outcome \in EngineFailures)
    /\ [][WaitRaised => log' \in {log, Append(log, Entry("close", "browser", 0))}]_vars
    /\ [][(epc = "except" /\ exc = "timeout") => outcome' = "Timeout"]_vars

C13_Witness ==
    /\ epc = "returned" /\ kind = "connect"
    /\ faults = {"profile_idle"}
    /\ outcome = "Timeout"
    /\ log[Len(log)] = Entry("close", "browser", 0)
    /\ log[Len(log) - 1] = Entry("wait_idle", "profile", 0)

----------------------------------------------------------------------------
(* Termination *)

\* Every awaited call is bounded (playwright's default timeouts, the explicit
\* timeout of wait_for_url, the timeout of the HTTP client) and the event loop
\* resumes a coroutine whose awaited call has ended: a step that can be taken
\* is eventually taken.
FairSpec == Spec /\ WF_vars(Next)

\* C14: every engine run that was started eventually returns an outcome
\* record, and every run of execute eventually ends having emitted its
\* terminal event.
C14_Terminates ==
    <>(/\ pc = "done"
       /\ engineCalls > 0 => (epc = "returned" /\ outcome \in EngineOutcomes)
       /\ shape = "remote" => (events # <<>> /\ Terminal(LastEvent)))

C14_Witness ==
    /\ shape = "remote" /\ pc = "done"
    /\ authMethod = "password" /\ "auth_wait" \in faults
    /\ epc = "returned" /\ outcome = "Timeout"
    /\ Terminal(LastEvent)

----------------------------------------------------------------------------
(* The note step of a connect run *)

NoteSkipped ==
    /\ kind = "connect" /\ NoteGiven(text)
    /\ seen["add_note"] = Absent \/ seen["note_field"] = Absent

SubmitFound == seen["send_aria"] = Present \/ seen["send_text"] = Present

\* the call issued right after the query that found control c absent
NextCallAfterAbsent(c) ==
    {log[i + 1] : i \in {j \in 1..(Len(log) - 1) :
                            log[j] = Entry("query", c, 0) /\ seen[c] = Absent}}

\* C15: in a connect run with a note, when the "Add a note" control or the
\* note field is absent the run does not fail for that reason: nothing is
\* filled, the next page call is the lookup of the submit control, and a run
\* in which no call raised ends in Success when a submit control was found
\* (SubmitControlNotFound otherwise).
C15_MissingNoteControlsDegrade ==
    NoteSkipped =>
        /\ \A e \in Range(log) : ~(e.op = "fill" /\ e.on = "note_field")
        /\ ret \in {"none", "Success", "SubmitControlNotFound"}
        /\ \A c \in {"add_note", "note_field"} :
              NextCallAfterAbsent(c) \subseteq
                  {Entry("query", "send_aria", 0), Entry("close", "browser", 0)}
        /\ (epc = "returned" /\ faults = {}) =>
              outcome = IF SubmitFound THEN "Success" ELSE "SubmitControlNotFound"

C15_Witness ==
    /\ NoteSkipped /\ seen["add_note"] = Present /\ seen["note_field"] = Absent
    /\ epc = "returned" /\ faults = {}
    /\ outcome = "Success"
    /\ Did("click", "add_note")

----------------------------------------------------------------------------
(* llm_service.py line 85, character by character.  A note is a sequence of  *)
(* runs of characters, each run all whitespace or all non-whitespace, and    *)
(* neighbouring runs of different kinds.                                     *)

\* the longest notes, in runs
MaxRuns == 3

RunLens == {1, 2, NoteLimit - 1, NoteLimit} \cup {NoteLimit + k : k \in 1..MaxExtra}
Runs == [blank : BOOLEAN, n : RunLens]

Notes ==
    UNION {{t \in [1..m -> Runs] : \A i \in 1..(m - 1) : t[i].blank # t[i + 1].blank} :
           m \in 0..MaxRuns}

RECURSIVE TextLen(_)
TextLen(t) == IF t = <<>> THEN 0 ELSE t[1].n + TextLen(Tail(t))

\* str.strip()
StripText(t) ==
    LET a == IF t # <<>> /\ t[1].blank THEN Tail(t) ELSE t
    IN IF a # <<>> /\ a[Len(a)].blank THEN SubSeq(a, 1, Len(a) - 1) ELSE a

\* s[:k]
RECURSIVE TakeText(_, _)
TakeText(t, k) ==
    IF t = <<>> \/ k = 0 THEN <<>>
    ELSE IF t[1].n <= k THEN <<t[1]>> \o TakeText(Tail(t), k - t[1].n)
    ELSE <<[t[1] EXCEPT !.n = k]>>

\* PostProcessText written as note[:300].strip()
PostProcessTextCutFirst(t) == StripText(TakeText(t, NoteLimit))

\* note.strip()[:300]
PostProcessText(t) == TakeText(StripText(t), NoteLimit)

InitPost ==
    /\ post \in {[stage |-> "note", note |-> t, out |-> <<>>, again |-> <<>>] : t \in Notes}
    /\ shape = "remote"
    /\ keys = [cookie |-> FALSE, email |-> FALSE, password |-> FALSE,
               apiKey |-> TRUE, provider |-> "google"]
    /\ opts = [action |-> "connect", personalize |-> TRUE, textLen |-> 0]
    /\ hasUrl = FALSE
    /\ pc = "post_process"
    /\ events = <<>>
    /\ authMethod = "none"
    /\ text = NoText
    /\ llmCalls = 0
    /\ xexc = "none"
    /\ EngineIdle
    /\ call = CallIdle
    /\ skill = SkillIdle

\* the provider's text goes through line 85
PostProcessNote ==
    /\ post.stage = "note"
    /\ post' = [post EXCEPT !.stage = "out", !.out = PostProcessText(post.note)]
    /\ UNCHANGED <<shape, keys, opts, hasUrl, call, skill>>
    /\ UNCHANGED execVars /\ UNCHANGED engineVars

\* the returned note goes through line 85 once more
PostProcessAgain ==
    /\ post.stage = "out"
    /\ post' = [post EXCEPT !.stage = "again", !.again = PostProcessText(post.out)]
    /\ UNCHANGED <<shape, keys, opts, hasUrl, call, skill>>
    /\ UNCHANGED execVars /\ UNCHANGED engineVars

NextPost == PostProcessNote \/ PostProcessAgain

SpecPost == InitPost /\ [][NextPost]_vars

Trimmed(t) == t = <<>> \/ (~t[1].blank /\ ~t[Len(t)].blank)
EndsBlank(t) == t # <<>> /\ t[Len(t)].blank
LeadBlanks(t) == IF t # <<>> /\ t[1].blank THEN t[1].n ELSE 0
TrailBlanks(t) == IF Len(t) > 1 /\ t[Len(t)].blank THEN t[Len(t)].n ELSE 0

\* C16 as stated: the post-processing returns exactly 300 characters for a
\* note longer than 300 characters and the note itself for a note of at most
\* 300 characters, and applying it to its own output changes nothing.
C16_PostProcessExact ==
    /\ post.stage \in {"out", "again"} =>
          /\ TextLen(post.note) > NoteLimit => TextLen(post.out) = NoteLimit
          /\ TextLen(post.note) <= NoteLimit => post.out = post.note
    /\ post.stage = "again" => post.again = post.out

\* C16, amended: the post-processing returns the first 300 characters of the
\* note without its leading and trailing whitespace: exactly 300 characters
\* when the trimmed note is longer than that, and the note unchanged when it
\* has at most 300 characters and no surrounding whitespace; applying the
\* post-processing to its own output changes nothing unless the cut left
\* whitespace at the end of the output, which the second application removes.
C16_PostProcessTrimmedCut ==
    /\ post.stage \in {"out", "again"} =>
          LET trimmedLen ==
                  TextLen(post.note) - LeadBlanks(post.note) - TrailBlanks(post.note)
          IN /\ TextLen(post.out) = Min(trimmedLen, NoteLimit)
             /\ post.out = <<>> \/ ~post.out[1].blank
             /\ (Trimmed(post.note) /\ TextLen(post.note) <= NoteLimit) =>
                    post.out = post.note
             /\ EndsBlank(post.out) => trimmedLen > NoteLimit
    /\ post.stage = "again" =>
          /\ ~EndsBlank(post.out) => post.again = post.out
          /\ EndsBlank(post.out) =>
                 /\ post.again = SubSeq(post.out, 1, Len(post.out) - 1)
                 /\ TextLen(post.again) < TextLen(post.out)

C16_Witness ==
    /\ post.stage = "again"
    /\ TextLen(post.note) > NoteLimit /\ Trimmed(post.note)
    /\ TextLen(post.out) = NoteLimit /\ EndsBlank(post.out)
    /\ TextLen(post.again) = NoteLimit - 1

----------------------------------------------------------------------------
(* The action sequence as a function of what the page showed *)

Q(c) == <<Entry("query", c, 0)>>
ClickOps(c) == <<Entry("click", c, 0), Entry("settle", c, 0)>>
FillOps(c, n) == <<Entry("fill", c, n), Entry("settle", c, 0)>>

\* linkedin_service.py lines 124-167 for note t and observations s
ConnectOps(t, s) ==
    LET noteOps ==
            IF ~NoteGiven(t) THEN <<>>
            ELSE Q("add_note") \o
                 (IF s["add_note"] # Present THEN <<>>
                  ELSE ClickOps("add_note") \o Q("note_field") \o
                       (IF s["note_field"] # Present THEN <<>>
                        ELSE FillOps("note_field", Min(t.len, NoteLimit))))
        sendOps ==
            Q("send_aria") \o
            (IF s["send_aria"] = Present THEN ClickOps("send_aria")
             ELSE Q("send_text") \o
                  (IF s["send_text"] = Present THEN ClickOps("send_text") ELSE <<>>))
    IN Q("connect") \o
       (IF s["connect"] = Present THEN ClickOps("connect") \o noteOps \o sendOps
        ELSE Q("pending") \o (IF s["pending"] = Present THEN <<>> ELSE Q("message")))

ConnectOutcome(s) ==
    IF s["connect"] = Present
    THEN IF s["send_aria"] = Present \/ s["send_text"] = Present
         THEN "Success" ELSE "SubmitControlNotFound"
    ELSE IF s["pending"] = Present THEN "AlreadyRequested"
    ELSE IF s["message"] = Present THEN "AlreadyConnected"
    ELSE "ControlNotFound"

\* linkedin_service.py lines 221-251 for message t and observations s
MessageOps(t, s) ==
    LET field == IF s["editable"] = Present THEN "editable" ELSE "textarea"
        button == IF s["submit"] = Present THEN "submit" ELSE "send_text"
        submitOps ==
            Q("submit") \o (IF s["submit"] = Present THEN <<>> ELSE Q("send_text")) \o
            (IF s[button] = Present THEN ClickOps(button) ELSE <<>>)
        fillOps ==
            Q("editable") \o (IF s["editable"] = Present THEN <<>> ELSE Q("textarea")) \o
            (IF s[field] = Present THEN FillOps(field, t.len) \o submitOps ELSE <<>>)
    IN Q("message") \o
       (IF s["message"] = Present THEN ClickOps("message") \o fillOps ELSE <<>>)

MessageOutcome(s) ==
    IF s["message"] # Present THEN "NotConnected"
    ELSE IF s["editable"] # Present /\ s["textarea"] # Present THEN "InputFieldNotFound"
    ELSE IF s["submit"] # Present /\ s["send_text"] # Present THEN "SubmitControlNotFound"
    ELSE "Success"

\* the calls issued on the profile page, once it has loaded
ProfilePhase ==
    LET i == CHOOSE j \in 1..Len(log) : log[j] = Entry("wait_idle", "profile", 0)
    IN SelectSeq(SubSeq(log, i + 1, Len(log)), LAMBDA e : e.op # "close")

\* C17: the remote engine after a successful authentication and the local
\* executor run the same action state machine: in either shape the queries,
\* clicks and fills issued on the profile page, and the outcome, are one and
\* the same function of the action kind, the text and the observed controls
\* (stated for the runs in which no call raised).
C17_SameActionMachine ==
    (epc = "returned" /\ authResult = "ok" /\ faults = {}) =>
        /\ kind = "connect" =>
              /\ ProfilePhase = ConnectOps(text, seen)
              /\ outcome = ConnectOutcome(seen)
        /\ kind = "message" =>
              /\ ProfilePhase = MessageOps(text, seen)
              /\ outcome = MessageOutcome(seen)

C17_Witness ==
    /\ shape = "local" /\ kind = "connect"
    /\ epc = "returned" /\ authResult = "ok" /\ faults = {}
    /\ text.len > NoteLimit
    /\ Entry("fill", "note_field", NoteLimit) \in Range(log)
    /\ seen["send_aria"] = Absent /\ outcome = "Success"

----------------------------------------------------------------------------
(* The text of a message run *)

\* C18: in a run of execute with action=message, send_message is invoked
\* only with a non-empty message, also when the text was replaced by the
\* output of personalization.
C18_MessageTextNonEmpty ==
    (shape = "remote" /\ kind = "message" /\ engineCalls > 0) => text.len > 0

----------------------------------------------------------------------------
(* A profile without Connect and without Pending *)

NoConnectNoPending ==
    /\ kind = "connect"
    /\ seen["connect"] = Absent /\ seen["pending"] = Absent
    /\ seen["message"] # "unseen"

\* C19: on a profile with no "Connect" and no "Pending" control the connect
\* run returns AlreadyConnected exactly when a "Message" control is present
\* and ControlNotFound otherwise; both are failures, nothing on the profile
\* is clicked, the caller receives that outcome unless browser.close() itself
\* raised, and execute ends with the connect error event.
C19_AlreadyConnectedOrNotFound ==
    NoConnectNoPending =>
        /\ ret = IF seen["message"] = Present THEN "AlreadyConnected"
                                              ELSE "ControlNotFound"
        /\ \A e \in Range(log) : ~ProfileClick(e)
        /\ epc = "returned" => (Delivered(ret) /\ outcome \in EngineFailures)
        /\ (shape = "remote" /\ pc = "done") => LastEvent = Error("connect_failed")

C19_Witness ==
    /\ NoConnectNoPending /\ seen["message"] = Present
    /\ shape = "remote" /\ pc = "done"
    /\ outcome = "AlreadyConnected"
    /\ LastEvent = Error("connect_failed")

----------------------------------------------------------------------------
(* Submitting the connection request *)

SendControls == {"send_aria", "send_text"}

\* C20: a connect run returns Success only after a click on the Connect
\* control followed by a click on a submit control; the control matched by
\* the aria-label selector is clicked when it exists (the text selector is
\* then not even tried) and the one matched by the text selector only when
\* the first is absent; when neither exists the run returns
\* SubmitControlNotFound without a submit click, the Connect click having
\* happened.
C20_SuccessAfterConnectAndSubmit ==
    kind = "connect" =>
        /\ (ret = "Success" \/ outcome = "Success") =>
              /\ ret = "Success"
              /\ \E i \in Clicks({"connect"}), j \in Clicks(SendControls) :
                    /\ i < j
                    /\ j + 1 = Len(log) \/ log[j + 2] = Entry("close", "browser", 0)
                    /\ log[j + 1] = Entry("settle", log[j].on, 0)
        /\ \A j \in Clicks({"send_aria"}) :
              seen["send_aria"] = Present /\ seen["send_text"] = "unseen"
        /\ \A j \in Clicks({"send_text"}) :
              seen["send_aria"] = Absent /\ seen["send_text"] = Present
        /\ Cardinality(Clicks(SendControls)) <= 1
        /\ (seen["send_aria"] = Absent /\ seen["send_text"] = Absent) =>
              /\ ret = "SubmitControlNotFound"
              /\ Clicks(SendControls) = {}
              /\ Clicks({"connect"}) # {}
              /\ epc = "returned" => Delivered("SubmitControlNotFound")

C20_Witness ==
    /\ kind = "connect" /\ epc = "returned" /\ outcome = "Success"
    /\ seen["send_aria"] = Absent /\ seen["send_text"] = Present
    /\ Clicks({"send_text"}) # {} /\ Clicks({"connect"}) # {}

----------------------------------------------------------------------------
(* Filling and submitting a message *)

MessageFields == {"editable", "textarea"}
SubmitControls == {"submit", "send_text"}

Fills(cs) == {i \in 1..Len(log) : log[i].op = "fill" /\ log[i].on \in cs}

\* C21: a message run returns Success only after the message field was
\* filled with the whole message text and, after that, a submit control was
\* clicked; the editable region is the field when it is present (the textarea
\* is then not looked up) and the textarea only otherwise; when neither
\* exists the run returns InputFieldNotFound and no submit control is looked
\* up or clicked.
C21_SuccessAfterFillAndSubmit ==
    kind = "message" =>
        /\ (ret = "Success" \/ outcome = "Success") =>
              /\ ret = "Success"
              /\ \E i \in Fills(MessageFields), j \in Clicks(SubmitControls) :
                    /\ i < j
                    /\ log[i + 1] = Entry("settle", log[i].on, 0)
                    /\ log[j + 1] = Entry("settle", log[j].on, 0)
                    /\ j + 1 = Len(log) \/ log[j + 2] = Entry("close", "browser", 0)
        /\ \A i \in Fills(MessageFields) : log[i].len = text.len
        /\ Cardinality(Fills(MessageFields)) <= 1
        /\ \A i \in Fills({"editable"}) :
              seen["editable"] = Present /\ seen["textarea"] = "unseen"
        /\ \A i \in Fills({"textarea"}) :
              seen["editable"] = Absent /\ seen["textarea"] = Present
        /\ (seen["editable"] = Absent /\ seen["textarea"] = Absent) =>
              /\ ret = "InputFieldNotFound"
              /\ Fills(MessageFields) = {}
              /\ \A c \in SubmitControls : seen[c] = "unseen" /\ ~Did("query", c)
              /\ Clicks(SubmitControls) = {}
              /\ epc = "returned" => Delivered("InputFieldNotFound")

C21_Witness ==
    /\ kind = "message" /\ epc = "returned" /\ outcome = "Success"
    /\ text.len > NoteLimit
    /\ seen["editable"] = Absent
    /\ Entry("fill", "textarea", text.len) \in Range(log)
    /\ Clicks({"send_text"}) # {}

----------------------------------------------------------------------------
(* Queries wait for the profile page *)

Queries == {i \in 1..Len(log) : log[i].op = "query"}

\* C22: every element query of an engine run comes after the navigation to
\* the profile and the network-idle wait that follows it, both of which have
\* returned; when the navigation or the wait raises, no element is queried
\* at all.
C22_QueriesAfterNetworkIdle ==
    /\ \A i \in Queries :
          /\ \E j \in 1..(i - 2) :
                /\ log[j] = Entry("goto", "profile", 0)
                /\ log[j + 1] = Entry("wait_idle", "profile", 0)
          /\ {"goto_profile", "profile_idle"} \cap faults = {}
    /\ ({"goto_profile", "profile_idle"} \cap faults # {}) =>
          /\ Queries = {}
          /\ \A c \in Controls : seen[c] = "unseen"
    /\ (\E c \in Controls : seen[c] # "unseen") => Queries # {}

C22_Witness ==
    /\ epc = "returned" /\ faults = {"profile_idle"}
    /\ Did("goto", "profile") /\ Did("wait_idle", "profile")
    /\ Queries = {}
    /\ outcome \in {"Timeout", "UnknownAutomationError"}

----------------------------------------------------------------------------
(* The login wait of the password strategy *)

LoginWaitRaised == "auth_wait" \in faults
VerificationPage == "checkpoint" \in url \/ "challenge" \in url

\* C23: when the wait for the feed after the password login raises (a
\* timeout included), authentication returns SecurityCheckpoint if the page
\* is a verification page; otherwise the exception goes on to the engine
\* function, whose outcome is then not SecurityCheckpoint but the
\* classification of the exception, Timeout for a timeout; in both cases the
\* login form was submitted exactly once and nothing else on the page is
\* touched.
C23_LoginWaitTimeout ==
    /\ [](LoginWaitRaised =>
            /\ authMethod = "password"
            /\ Cardinality(Clicks({"login_submit"})) = 1
            /\ Queries = {} /\ ~Did("goto", "profile")
            /\ IF VerificationPage
               THEN /\ authResult = "SecurityCheckpoint"
                    /\ exc = "none" \/ CloseRaised
                    /\ epc = "returned" => Delivered("SecurityCheckpoint")
               ELSE /\ authResult = "none" /\ ret = "none"
                    /\ epc # "returned" => exc \in Faults
                    /\ epc = "returned" =>
                           outcome \in {"Timeout", "UnknownAutomationError"})
    /\ [][(LoginWaitRaised /\ ~VerificationPage /\ epc = "finally") =>
             (exc' = exc \/ CloseRaised')]_vars
    /\ [][(LoginWaitRaised /\ epc = "except" /\ exc = "timeout") =>
             outcome' = "Timeout"]_vars

C23_Witness ==
    /\ epc = "returned" /\ faults = {"auth_wait"}
    /\ url = {"login"}
    /\ outcome = "Timeout"
    /\ Cardinality(Clicks({"login_submit"})) = 1

----------------------------------------------------------------------------
(* The cookie strategy *)

CookieDecided == authMethod = "cookie" /\ authResult # "none"

FeedVisits == {i \in 1..Len(log) : log[i] = Entry("goto", "feed", 0)}

----------------------------------------------------------------------------
(* The length of the note that is filled in *)

NoteFills == {i \in 1..Len(log) : log[i].op = "fill" /\ log[i].on = "note_field"}

\* C25: whenever a connect run fills the note field, in either shape, the
\* text filled has the length of the first 300 characters of the note: the
\* whole note when it has at most 300 characters, and never more than 300.
C25_NoteFillAtMostLimit ==
    \A i \in NoteFills :
        /\ kind = "connect" /\ NoteGiven(text)
        /\ log[i].len <= NoteLimit
        /\ text.len <= NoteLimit => log[i].len = text.len
        /\ text.len > NoteLimit => log[i].len = NoteLimit

C25_Witness ==
    /\ shape = "local" /\ text.len = NoteLimit + 1
    /\ NoteFills # {}
    /\ \A i \in NoteFills : log[i].len = NoteLimit

----------------------------------------------------------------------------
(* The provider adapters: llm_service.py lines 88-220.  One behaviour is one *)
(* call of one adapter with one answer of the backend.                       *)

\* response.text[:200]
DetailLimit == 200

DetailLens == {0, DetailLimit} \cup {DetailLimit + k : k \in 1..MaxExtra}

\* what client.post can end in: an exception (timeout, or another transport
\* error), or a response with its status, the backend's reason for an error
\* status, the length of its body and, for a success status, whether the body
\* holds the generated text where the adapter looks for it
Answers ==
    {[kind |-> k, status |-> 0, cause |-> "none", body |-> "none", detail |-> 0] :
        k \in {"timeout", "network"}}
    \cup
    {[kind |-> "response", status |-> st, cause |-> "none", body |-> b, detail |-> 0] :
        st \in {200, 201}, b \in {"text", "malformed"}}
    \cup
    {[kind |-> "response", status |-> st, cause |-> "bad_key", body |-> "error",
      detail |-> d] : st \in {400, 401, 403}, d \in DetailLens}
    \cup
    {[kind |-> "response", status |-> 429, cause |-> "quota", body |-> "error",
      detail |-> d] : d \in DetailLens}
    \cup
    {[kind |-> "response", status |-> st, cause |-> "other", body |-> "error",
      detail |-> d] : st \in {400, 403, 500}, d \in DetailLens}

\* the text returned, or the ValueError raised: its message class, whether the
\* message went through the `except Exception` clause ("<Provider> error: ..."),
\* and the length of the diagnostic text it carries
Returned == [class |-> "Text", wrapped |-> FALSE, detail |-> 0]
Raised(c, w, d) == [class |-> c, wrapped |-> w, detail |-> d]

\* the body shared by the three adapters; authStatus is the status the adapter
\* reports as an invalid key
Adapter(authStatus, a) ==
    IF a.kind = "timeout" THEN Raised("Timeout", FALSE, 0)
    ELSE IF a.kind = "network" THEN Raised("Unexpected", TRUE, 0)
    ELSE IF a.status # 200
    THEN IF a.status = authStatus THEN Raised("AuthError", TRUE, 0)
         ELSE IF a.status = 429 THEN Raised("RateLimited", TRUE, 0)
         ELSE Raised("ProviderError", TRUE, Min(a.detail, DetailLimit))
    ELSE IF a.body = "text" THEN Returned
    ELSE Raised("Unexpected", TRUE, 0)

InitCall ==
    /\ call \in {[stage |-> "answered", provider |-> p, answer |-> a] :
                    p \in KnownProviders, a \in Answers}
    /\ shape = "remote"
    /\ keys = [cookie |-> FALSE, email |-> FALSE, password |-> FALSE,
               apiKey |-> TRUE, provider |-> "google"]
    /\ opts = [action |-> "connect", personalize |-> TRUE, textLen |-> 0]
    /\ hasUrl = FALSE
    /\ pc = "adapter"
    /\ events = <<>>
    /\ authMethod = "none"
    /\ text = NoText
    /\ llmCalls = 0
    /\ xexc = "none"
    /\ EngineIdle
    /\ post = PostIdle
    /\ skill = SkillIdle

\* lines 88-128
CallAnthropic ==
    /\ call.stage = "answered"
    /\ call.provider = "anthropic"
    /\ call' = [call EXCEPT !.stage = "done"] @@ [result |-> Adapter(401, call.answer)]
    /\ UNCHANGED <<shape, keys, opts, hasUrl, post, skill>>
    /\ UNCHANGED execVars /\ UNCHANGED engineVars

\* lines 131-173
CallOpenai ==
    /\ call.stage = "answered"
    /\ call.provider = "openai"
    /\ call' = [call EXCEPT !.stage = "done"] @@ [result |-> Adapter(401, call.answer)]
    /\ UNCHANGED <<shape, keys, opts, hasUrl, post, skill>>
    /\ UNCHANGED execVars /\ UNCHANGED engineVars

\* lines 176-220
CallGoogle ==
    /\ call.stage = "answered"
    /\ call.provider = "google"
    /\ call' = [call EXCEPT !.stage = "done"] @@ [result |-> Adapter(400, call.answer)]
    /\ UNCHANGED <<shape, keys, opts, hasUrl, post, skill>>
    /\ UNCHANGED execVars /\ UNCHANGED engineVars

NextCall == CallAnthropic \/ CallOpenai \/ CallGoogle

SpecCall == InitCall /\ [][NextCall]_vars

\* C26: each adapter reports a bad-key response as the authentication
\* error, a quota response as the rate-limit error, a request timeout as the
\* timeout error and every other non-2xx response as the provider error with
\* the diagnostic text cut to its limit, and never reports a 2xx response as
\* an error.
C26_AdaptersClassifyAlike ==
    call.stage = "done" =>
        LET a == call.answer
            r == call.result
        IN /\ a.cause = "bad_key" => r.class = "AuthError"
           /\ a.cause = "quota" => r.class = "RateLimited"
           /\ a.kind = "timeout" => r.class = "Timeout"
           /\ (a.cause = "other" /\ a.status \notin 200..299) =>
                  (r.class = "ProviderError" /\ r.detail = Min(a.detail, DetailLimit))
           /\ (a.kind = "response" /\ a.status \in 200..299) => r.class = "Text"

----------------------------------------------------------------------------
(* An unrecognised provider *)

AtPersonalization == pc \in {"connect_llm", "msg_llm"}

\* C27: generate_personalized_note called with a provider other than the
\* three supported ones raises its ValueError and sends no request to any
\* backend: the call changes nothing but the pending exception.
C27_UnknownProviderNoRequest ==
    /\ [](UnknownProvider => (llmCalls = 0 /\ text.src # "llm"))
    /\ [][(AtPersonalization /\ UnknownProvider) =>
             /\ xexc' = "ValueError" /\ pc' = "except"
             /\ llmCalls' = llmCalls /\ text' = text]_vars

C27_Witness ==
    /\ pc = "except" /\ xexc = "ValueError"
    /\ UnknownProvider /\ opts.action = "message"
    /\ llmCalls = 0 /\ text.src = "caller"

----------------------------------------------------------------------------
(* A failed personalization *)

\* generate_personalized_note raised: the exception is pending, or the except
\* clause of execute has reported it
PersonalizationFailed ==
    xexc # "none" \/ Error("agent_error") \in Range(events)

\* C28: when personalization fails in a run of execute, for either action,
\* the run ends with an error event and the engine is never started: no
\* engine function is called, no browser is launched, nothing is done on any
\* page, and no result event is emitted.
C28_FailedPersonalizationStopsTheRun ==
    /\ [](PersonalizationFailed =>
            /\ opts.personalize /\ opts.action \in {"connect", "message"}
            /\ pc \in {"except", "done"}
            /\ pc = "done" => LastEvent = Error("agent_error")
            /\ ResultEvents = {}
            /\ engineCalls = 0 /\ kind = "none" /\ epc = "idle"
            /\ browser = "none" /\ pw = "none" /\ log = <<>>)
    /\ [][(AtPersonalization /\ text' = text) => PersonalizationFailed']_vars
    /\ [][xexc # "none" =>
             /\ pc' = "done" /\ events' = Append(events, Error("agent_error"))
             /\ UNCHANGED engineVars]_vars

C28_Witness ==
    /\ pc = "done" /\ PersonalizationFailed
    /\ opts.action = "message" /\ ~UnknownProvider
    /\ llmCalls = 1 /\ engineCalls = 0 /\ browser = "none"

----------------------------------------------------------------------------
(* How often the backend is called, and what the engine gets without it *)

\* C29: in a run of execute the personalization backend is called at most
\* once and only when personalize is true; with personalize=false the engine
\* of a connect run gets no note (and so never looks for the note controls)
\* and the engine of a message run gets the caller's message_text as it is.
C29_PersonalizeOnceIfAsked ==
    shape = "remote" =>
        /\ llmCalls <= 1
        /\ llmCalls > 0 => opts.personalize
        /\ text.src = "llm" => (opts.personalize /\ llmCalls = 1)
        /\ (~opts.personalize /\ engineCalls > 0) =>
              /\ kind = "connect" =>
                    /\ text = NoText
                    /\ NoteFills = {}
                    /\ seen["add_note"] = "unseen" /\ seen["note_field"] = "unseen"
              /\ kind = "message" =>
                    /\ text = [src |-> "caller", len |-> opts.textLen]
                    /\ \A i \in Fills(MessageFields) : log[i].len = opts.textLen

C29_Witness ==
    /\ shape = "remote" /\ ~opts.personalize /\ kind = "message"
    /\ llmCalls = 0 /\ opts.textLen = NoteLimit + 1
    /\ Fills(MessageFields) # {}
    /\ pc = "done" /\ LastEvent.type = "result"

--------------------------------------------------------------------------------
\* The local skill's gate on the coordinator call

\* the local browser action has been started
LocalStarted == shape = "local" /\ engineCalls > 0

\* the coordinator call failed, answered with a status other than 200, or its
\* stream ended without a successful result object
CoordinatorFailed ==
    /\ shape = "local"
    /\ skill.stage = "called"
    /\ skill.answer.kind \in CoordinatorFailures

\* C30: in the local skill the browser action is started only after the
\* coordinator call returned success with generated text, and that text is what
\* the action is given; after a coordinator call that failed, answered with a
\* status other than 200 or streamed no successful result object, no browser
\* session is ever launched and the skill exits with status 1.
C30_LocalActionOnlyAfterGeneratedText ==
    /\ LocalStarted =>
          /\ skill.stage = "called"
          /\ skill.answer.kind = "success"
          /\ skill.result.success
          /\ text = skill.result.text
          /\ text.src = "llm"
          /\ text.len > 0
    /\ CoordinatorFailed =>
          /\ engineCalls = 0 /\ pw = "none" /\ browser = "none" /\ log = <<>>
          /\ pc = "done" => skill.exit = 1

\* the gate alone: the order of the coordinator call and the browser action, and
\* the exit status after a failed call
LocalGateHolds ==
    /\ LocalStarted => (skill.stage = "called" /\ skill.result.success
                           /\ text = skill.result.text)
    /\ CoordinatorFailed =>
          /\ engineCalls = 0 /\ pw = "none" /\ browser = "none" /\ log = <<>>
          /\ pc = "done" => skill.exit = 1

\* the connection note sent locally is the coordinator's confirmation text
LocalSendsConfirmationText ==
    /\ LocalStarted /\ kind = "connect" /\ text.src = "confirmation"
    /\ outcome = "Success" /\ pc = "done" /\ skill.exit = 0

\* the local message action is run with an empty text
LocalSendsEmptyText ==
    LocalStarted /\ kind = "message" /\ text.len = 0 /\ epc = "returned"

\* a failed coordinator call has ended the skill
LocalStoppedAtGate ==
    CoordinatorFailed /\ pc = "done" /\ skill.exit = 1

================================================================================
